---------------------------- MODULE Spec2Model ----------------------------
(***************************************************************************)
(* Model of scripts/generate-api-docs.py: the API documentation generator  *)
(* of the smart home system.  Text is modelled character by character (a   *)
(* Python str is a sequence of one-character strings), so that substring   *)
(* tests and str.replace behave as they do in the program.                 *)
(***************************************************************************)
EXTENDS Integers, Sequences, FiniteSets, TLC

VARIABLES
  argv,               \* how the command line is classified by parse_args
  console,            \* whether sys.stdout can encode the symbols of the summary
  pc,                 \* position of the run
  paths,              \* args.template, args.output, args.report
  fs,                 \* the files and the directories, by path
  fs0,                \* history: the file system when the run started
  clock,              \* last value datetime.now() returned
  template_content,   \* main: local template_content
  metadata,           \* the metadata argument of generate_api_docs
  pre,                \* outcome of validate_template_content
  validation_results, \* outcome of validate_generated_docs
  steps,              \* which step results are known: loaded, gen_ok, report_ok
  calls,              \* history: functions invoked so far, in order
  reads,              \* history: files opened for reading
  writes,             \* history: files opened for writing
  exit_code           \* the process exit status; -1 while running

vars == <<argv, console, paths, pc, fs, fs0, clock, template_content, metadata, pre,
          validation_results, steps, calls, reads, writes, exit_code>>

-----------------------------------------------------------------------------
(* Bounds of the model *)

MaxTitleCopies == 2
MaxClock == 1

-----------------------------------------------------------------------------
(* The literals of the program, as character sequences *)

NL == "\n"

CR == "\r"

\* the grave accent (U+0060), which a TLA+ string cannot hold
BT == "<grave>"

Title ==
  <<"#", " ", "S", "m", "a", "r", "t", " ", "H", "o", "m", "e", " ", "S", "y",
    "s", "t", "e", "m", " ", "A", "P", "I", " ", "D", "o", "c", "u", "m", "e",
    "n", "t", "a", "t", "i", "o", "n">>

OtherTitle ==
  <<"#", " ", "A", "P", "I", " ", "R", "e", "f", "e", "r", "e", "n", "c", "e">>

OverviewHeading ==
  <<"#", "#", " ", "O", "v", "e", "r", "v", "i", "e", "w">>

AuthenticationHeading ==
  <<"#", "#", " ", "A", "u", "t", "h", "e", "n", "t", "i", "c", "a", "t", "i",
    "o", "n">>

EndpointsHeading ==
  <<"#", "#", " ", "E", "n", "d", "p", "o", "i", "n", "t", "s">>

ExamplesHeading ==
  <<"#", "#", " ", "R", "e", "q", "u", "e", "s", "t", "/", "R", "e", "s", "p",
    "o", "n", "s", "e", " ", "E", "x", "a", "m", "p", "l", "e", "s">>

ErrorCodesHeading ==
  <<"#", "#", " ", "E", "r", "r", "o", "r", " ", "C", "o", "d", "e", "s">>

HttpFence ==
  <<BT, BT, BT, "h", "t", "t", "p">>

JsonFence ==
  <<BT, BT, BT, "j", "s", "o", "n">>

DeeperOverview ==
  <<"#", "#", "#", " ", "O", "v", "e", "r", "v", "i", "e", "w">>

LongerOverview ==
  <<"#", "#", " ", "O", "v", "e", "r", "v", "i", "e", "w", " ", "o", "f", " ",
    "d", "e", "v", "i", "c", "e", "s">>

LowerOverview ==
  <<"#", "#", " ", "o", "v", "e", "r", "v", "i", "e", "w">>

HttpBlock ==
  <<BT, BT, BT, "h", "t", "t", "p", NL, "G", "E", "T", " ", "/", "d", NL, BT,
    BT, BT>>

JsonBlock ==
  <<BT, BT, BT, "j", "s", "o", "n", NL, "{", "\"", "a", "\"", ":", " ", "1",
    "}", NL, BT, BT, BT>>

BadJsonBlock ==
  <<BT, BT, BT, "j", "s", "o", "n", NL, "{", "\"", "a", "\"", ":", " ", "}",
    NL, BT, BT, BT>>

TableLine ==
  <<"|", " ", "a", " ", "|", " ", "b", " ", "|">>

GeneratedOpen ==
  <<NL, "<", "!", "-", "-", " ", "G", "e", "n", "e", "r", "a", "t", "e", "d",
    ":", " ">>

CommentClose ==
  <<" ", "-", "-", ">", NL>>

VersionOpen ==
  <<"<", "!", "-", "-", " ", "V", "e", "r", "s", "i", "o", "n", ":", " ">>

DefaultVersion ==
  <<"1", ".", "0", ".", "0">>

OtherVersion ==
  <<"2", ".", "1">>

IsoPrefix ==
  <<"2", "0", "2", "6", "-", "1", "0", "-", "2", "9", "T", "1", "2", ":", "0",
    "0", ":", "0">>

TemplatePath ==
  <<"t", "p", "l", "/", "t", ".", "m", "d">>

OutputPath ==
  <<"o", "u", "t", "/", "e", ".", "m", "d">>

BareOutputPath ==
  <<"e", ".", "m", "d">>

QuotedOutputPath ==
  <<"o", "u", "t", "/", "i", "t", "'", "s", ".", "m", "d">>

RootOutputPath ==
  <<"/", "e", ".", "m", "d">>

ReportPath ==
  <<"r", "e", "p", "/", "r", ".", "j", "s", "o", "n">>

SharedDirReportPath ==
  <<"o", "u", "t", "/", "r", ".", "j", "s", "o", "n">>

BareReportPath ==
  <<"r", ".", "j", "s", "o", "n">>

TplDir ==
  <<"t", "p", "l">>

RootDir ==
  <<"/">>

OutDir ==
  <<"o", "u", "t">>

RepDir ==
  <<"r", "e", "p">>

NoSuchFile ==
  <<"[", "E", "r", "r", "n", "o", " ", "2", "]", " ", "N", "o", " ", "s", "u",
    "c", "h", " ", "f", "i", "l", "e", " ", "o", "r", " ", "d", "i", "r", "e",
    "c", "t", "o", "r", "y", ":", " ">>

CannotDecode ==
  <<"'", "u", "t", "f", "-", "8", "'", " ", "c", "o", "d", "e", "c", " ", "c",
    "a", "n", "'", "t", " ", "d", "e", "c", "o", "d", "e", " ">>

ByteText ==
  <<"b", "y", "t", "e", " ", "0", "x">>

BytesText ==
  <<"b", "y", "t", "e", "s">>

InPosition ==
  <<" ", "i", "n", " ", "p", "o", "s", "i", "t", "i", "o", "n", " ">>

InvalidStartByte ==
  <<"i", "n", "v", "a", "l", "i", "d", " ", "s", "t", "a", "r", "t", " ", "b",
    "y", "t", "e">>

InvalidContinuationByte ==
  <<"i", "n", "v", "a", "l", "i", "d", " ", "c", "o", "n", "t", "i", "n", "u",
    "a", "t", "i", "o", "n", " ", "b", "y", "t", "e">>

UnexpectedEndOfData ==
  <<"u", "n", "e", "x", "p", "e", "c", "t", "e", "d", " ", "e", "n", "d", " ",
    "o", "f", " ", "d", "a", "t", "a">>

JsonTrue ==
  <<"t", "r", "u", "e">>

JsonFalse ==
  <<"f", "a", "l", "s", "e">>

KeyTimestamp ==
  <<"t", "i", "m", "e", "s", "t", "a", "m", "p">>

KeyValidationResults ==
  <<"v", "a", "l", "i", "d", "a", "t", "i", "o", "n", "_", "r", "e", "s", "u",
    "l", "t", "s">>

KeySummary ==
  <<"s", "u", "m", "m", "a", "r", "y">>

KeyHasOverview ==
  <<"h", "a", "s", "_", "o", "v", "e", "r", "v", "i", "e", "w">>

KeyHasAuthentication ==
  <<"h", "a", "s", "_", "a", "u", "t", "h", "e", "n", "t", "i", "c", "a", "t",
    "i", "o", "n">>

KeyHasEndpoints ==
  <<"h", "a", "s", "_", "e", "n", "d", "p", "o", "i", "n", "t", "s">>

KeyHasExamples ==
  <<"h", "a", "s", "_", "e", "x", "a", "m", "p", "l", "e", "s">>

KeyHasErrorCodes ==
  <<"h", "a", "s", "_", "e", "r", "r", "o", "r", "_", "c", "o", "d", "e", "s">>

KeyHasHttpExamples ==
  <<"h", "a", "s", "_", "h", "t", "t", "p", "_", "e", "x", "a", "m", "p", "l",
    "e", "s">>

KeyHasJsonExamples ==
  <<"h", "a", "s", "_", "j", "s", "o", "n", "_", "e", "x", "a", "m", "p", "l",
    "e", "s">>

KeyLineCount ==
  <<"l", "i", "n", "e", "_", "c", "o", "u", "n", "t">>

KeyWordCount ==
  <<"w", "o", "r", "d", "_", "c", "o", "u", "n", "t">>

KeyValidationPassed ==
  <<"v", "a", "l", "i", "d", "a", "t", "i", "o", "n", "_", "p", "a", "s", "s",
    "e", "d">>

KeyError ==
  <<"e", "r", "r", "o", "r">>

KeyPassed ==
  <<"p", "a", "s", "s", "e", "d">>

KeyTotalChecks ==
  <<"t", "o", "t", "a", "l", "_", "c", "h", "e", "c", "k", "s">>

KeyPassedChecks ==
  <<"p", "a", "s", "s", "e", "d", "_", "c", "h", "e", "c", "k", "s">>

\* an http block with a "\r\n" and a lone "\r" line ending
CrLfHttpBlock ==
  <<BT, BT, BT, "h", "t", "t", "p", CR, NL, "G", "E", "T", " ", "/", "d", CR,
    BT, BT, BT>>

\* a line of two words with a form feed between them
FormFeedLine == <<"a", "\f", "b">>
-----------------------------------------------------------------------------
(* Python str operations *)

\* s[i:i+len(p)] == p, with i counted from 1
MatchAt(s, p, i) ==
  /\ i + Len(p) - 1 <= Len(s)
  /\ \A j \in 1..Len(p) : s[i + j - 1] = p[j]

\* p in s
Contains(s, p) == \E i \in 1..(Len(s) - Len(p) + 1) : MatchAt(s, p, i)

\* the first occurrence of p in s at or after position i, 0 when there is none
FindFrom(s, p, i) ==
  LET found == {k \in i..(Len(s) - Len(p) + 1) : MatchAt(s, p, k)}
  IN  IF found = {} THEN 0 ELSE CHOOSE k \in found : \A m \in found : k <= m

\* s.replace(old, new): every non-overlapping occurrence, left to right
RECURSIVE ReplaceFrom(_, _, _, _)
ReplaceFrom(s, old, new, i) ==
  LET k == FindFrom(s, old, i)
  IN  IF k = 0 THEN SubSeq(s, i, Len(s))
      ELSE SubSeq(s, i, k - 1) \o new \o ReplaceFrom(s, old, new, k + Len(old))

\* a replace that keeps the text up to the first occurrence, puts new there and
\* drops what follows the occurrence
ReplaceDroppingTail(s, old, new) ==
  LET k == FindFrom(s, old, 1)
  IN  IF k = 0 THEN s ELSE SubSeq(s, 1, k - 1) \o new

Replace(s, old, new) == ReplaceFrom(s, old, new, 1)

\* len(s.split('\n'))
LineCount(s) == 1 + Cardinality({i \in 1..Len(s) : s[i] = NL})

\* The characters str.split() splits on (those str.isspace() accepts): tab, line
\* feed, vertical tab, form feed, carriage return, U+001C..U+001F, space,
\* U+0085, U+00A0, U+1680, U+2000..U+200A, U+2028, U+2029, U+202F, U+205F and
\* U+3000.
Whitespace ==
  {"\t", NL, "<U+000B>", "\f", CR, "<U+001C>", "<U+001D>", "<U+001E>",
   "<U+001F>", " ", "<U+0085>", "<U+00A0>", "<U+1680>", "<U+2000>", "<U+2001>",
   "<U+2002>", "<U+2003>", "<U+2004>", "<U+2005>", "<U+2006>", "<U+2007>",
   "<U+2008>", "<U+2009>", "<U+200A>", "<U+2028>", "<U+2029>", "<U+202F>",
   "<U+205F>", "<U+3000>"}

IsSpace(c) == c \in Whitespace

\* len(s.split()): the number of maximal runs of non-whitespace characters
WordCount(s) ==
  Cardinality({i \in 1..Len(s) : ~IsSpace(s[i]) /\ (i = 1 \/ IsSpace(s[i - 1]))})

\* all(xs)
All(xs) == \A i \in 1..Len(xs) : xs[i]

\* datetime.datetime.now().isoformat(), for the clock reading t
Digit(t) == <<"0", "1", "2", "3", "4", "5", "6", "7", "8", "9">>[t + 1]

IsoFormat(t) == IsoPrefix \o <<Digit(t)>>

-----------------------------------------------------------------------------
(* Characters *)

\* A character of a text is a one-character string when it is a printable
\* ASCII character (the grave accent is BT) or one of "\t", "\n", "\f", "\r".
\* Every other character is named by its code point: "<U+XXXX>", with four
\* to six upper case hexadecimal digits.

\* U+0020..U+007E, in order
PrintableAscii ==
  <<" ", "!", "\"", "#", "$", "%", "&", "'", "(", ")", "*", "+", ",", "-",
    ".", "/", "0", "1", "2", "3", "4", "5", "6", "7", "8", "9", ":", ";", "<",
    "=", ">", "?", "@", "A", "B", "C", "D", "E", "F", "G", "H", "I", "J", "K",
    "L", "M", "N", "O", "P", "Q", "R", "S", "T", "U", "V", "W", "X", "Y", "Z",
    "[", "\\", "]", "^", "_", BT, "a", "b", "c", "d", "e", "f", "g", "h", "i",
    "j", "k", "l", "m", "n", "o", "p", "q", "r", "s", "t", "u", "v", "w", "x",
    "y", "z", "{", "|", "}", "~">>

UpperHex ==
  <<"0", "1", "2", "3", "4", "5", "6", "7", "8", "9", "A", "B", "C", "D", "E",
    "F">>

LowerHex ==
  <<"0", "1", "2", "3", "4", "5", "6", "7", "8", "9", "a", "b", "c", "d", "e",
    "f">>

\* c is a character named by its code point
IsNamed(c) == Len(c) >= 8 /\ SubSeq(c, 1, 3) = "<U+"

\* the number a string of upper case hexadecimal digits denotes
RECURSIVE HexValue(_)
HexValue(h) ==
  IF h = "" THEN 0
  ELSE LET last == SubSeq(h, Len(h), Len(h))
       IN  16 * HexValue(SubSeq(h, 1, Len(h) - 1))
             + (CHOOSE v \in 0..15 : UpperHex[v + 1] = last)

\* ord(c)
Ord(c) ==
  IF IsNamed(c) THEN HexValue(SubSeq(c, 4, Len(c) - 1))
  ELSE IF c = "\t" THEN 9
  ELSE IF c = NL THEN 10
  ELSE IF c = "\f" THEN 12
  ELSE IF c = CR THEN 13
  ELSE 31 + (CHOOSE i \in 1..95 : PrintableAscii[i] = c)

\* the name of the code point n
RECURSIVE HexName(_, _)
HexName(n, width) ==
  IF width = 0 THEN "" ELSE HexName(n \div 16, width - 1) \o UpperHex[(n % 16) + 1]

\* chr(n)
Chr(n) ==
  IF n = 9 THEN "\t"
  ELSE IF n = 10 THEN NL
  ELSE IF n = 12 THEN "\f"
  ELSE IF n = 13 THEN CR
  ELSE IF n \in 32..126 THEN PrintableAscii[n - 31]
  ELSE "<U+" \o HexName(n, IF n < 65536 THEN 4 ELSE IF n < 1048576 THEN 5 ELSE 6)
         \o ">"

\* '%0<width>x' % n, as a text
Hex(n, width) ==
  [i \in 1..width |-> LowerHex[((n \div (16 ^ (width - i))) % 16) + 1]]

\* str(n) of a natural number
RECURSIVE Decimal(_)
Decimal(n) ==
  IF n < 10 THEN <<Digit(n)>> ELSE Decimal(n \div 10) \o <<Digit(n % 10)>>

\* The code points from U+0080 on that str.isprintable() rejects, as ranges
\* <<first, last>> (the Unicode 14.0 tables of CPython 3.11): controls, format
\* characters, surrogates, private use, unassigned, separators.
NonPrintableRanges ==
  <<<<128, 160>>, <<173, 173>>, <<888, 889>>, <<896, 899>>, <<907, 907>>,
    <<909, 909>>, <<930, 930>>, <<1328, 1328>>, <<1367, 1368>>,
    <<1419, 1420>>, <<1424, 1424>>, <<1480, 1487>>, <<1515, 1518>>,
    <<1525, 1541>>, <<1564, 1564>>, <<1757, 1757>>, <<1806, 1807>>,
    <<1867, 1868>>, <<1970, 1983>>, <<2043, 2044>>, <<2094, 2095>>,
    <<2111, 2111>>, <<2140, 2141>>, <<2143, 2143>>, <<2155, 2159>>,
    <<2191, 2199>>, <<2274, 2274>>, <<2436, 2436>>, <<2445, 2446>>,
    <<2449, 2450>>, <<2473, 2473>>, <<2481, 2481>>, <<2483, 2485>>,
    <<2490, 2491>>, <<2501, 2502>>, <<2505, 2506>>, <<2511, 2518>>,
    <<2520, 2523>>, <<2526, 2526>>, <<2532, 2533>>, <<2559, 2560>>,
    <<2564, 2564>>, <<2571, 2574>>, <<2577, 2578>>, <<2601, 2601>>,
    <<2609, 2609>>, <<2612, 2612>>, <<2615, 2615>>, <<2618, 2619>>,
    <<2621, 2621>>, <<2627, 2630>>, <<2633, 2634>>, <<2638, 2640>>,
    <<2642, 2648>>, <<2653, 2653>>, <<2655, 2661>>, <<2679, 2688>>,
    <<2692, 2692>>, <<2702, 2702>>, <<2706, 2706>>, <<2729, 2729>>,
    <<2737, 2737>>, <<2740, 2740>>, <<2746, 2747>>, <<2758, 2758>>,
    <<2762, 2762>>, <<2766, 2767>>, <<2769, 2783>>, <<2788, 2789>>,
    <<2802, 2808>>, <<2816, 2816>>, <<2820, 2820>>, <<2829, 2830>>,
    <<2833, 2834>>, <<2857, 2857>>, <<2865, 2865>>, <<2868, 2868>>,
    <<2874, 2875>>, <<2885, 2886>>, <<2889, 2890>>, <<2894, 2900>>,
    <<2904, 2907>>, <<2910, 2910>>, <<2916, 2917>>, <<2936, 2945>>,
    <<2948, 2948>>, <<2955, 2957>>, <<2961, 2961>>, <<2966, 2968>>,
    <<2971, 2971>>, <<2973, 2973>>, <<2976, 2978>>, <<2981, 2983>>,
    <<2987, 2989>>, <<3002, 3005>>, <<3011, 3013>>, <<3017, 3017>>,
    <<3022, 3023>>, <<3025, 3030>>, <<3032, 3045>>, <<3067, 3071>>,
    <<3085, 3085>>, <<3089, 3089>>, <<3113, 3113>>, <<3130, 3131>>,
    <<3141, 3141>>, <<3145, 3145>>, <<3150, 3156>>, <<3159, 3159>>,
    <<3163, 3164>>, <<3166, 3167>>, <<3172, 3173>>, <<3184, 3190>>,
    <<3213, 3213>>, <<3217, 3217>>, <<3241, 3241>>, <<3252, 3252>>,
    <<3258, 3259>>, <<3269, 3269>>, <<3273, 3273>>, <<3278, 3284>>,
    <<3287, 3292>>, <<3295, 3295>>, <<3300, 3301>>, <<3312, 3312>>,
    <<3315, 3327>>, <<3341, 3341>>, <<3345, 3345>>, <<3397, 3397>>,
    <<3401, 3401>>, <<3408, 3411>>, <<3428, 3429>>, <<3456, 3456>>,
    <<3460, 3460>>, <<3479, 3481>>, <<3506, 3506>>, <<3516, 3516>>,
    <<3518, 3519>>, <<3527, 3529>>, <<3531, 3534>>, <<3541, 3541>>,
    <<3543, 3543>>, <<3552, 3557>>, <<3568, 3569>>, <<3573, 3584>>,
    <<3643, 3646>>, <<3676, 3712>>, <<3715, 3715>>, <<3717, 3717>>,
    <<3723, 3723>>, <<3748, 3748>>, <<3750, 3750>>, <<3774, 3775>>,
    <<3781, 3781>>, <<3783, 3783>>, <<3790, 3791>>, <<3802, 3803>>,
    <<3808, 3839>>, <<3912, 3912>>, <<3949, 3952>>, <<3992, 3992>>,
    <<4029, 4029>>, <<4045, 4045>>, <<4059, 4095>>, <<4294, 4294>>,
    <<4296, 4300>>, <<4302, 4303>>, <<4681, 4681>>, <<4686, 4687>>,
    <<4695, 4695>>, <<4697, 4697>>, <<4702, 4703>>, <<4745, 4745>>,
    <<4750, 4751>>, <<4785, 4785>>, <<4790, 4791>>, <<4799, 4799>>,
    <<4801, 4801>>, <<4806, 4807>>, <<4823, 4823>>, <<4881, 4881>>,
    <<4886, 4887>>, <<4955, 4956>>, <<4989, 4991>>, <<5018, 5023>>,
    <<5110, 5111>>, <<5118, 5119>>, <<5760, 5760>>, <<5789, 5791>>,
    <<5881, 5887>>, <<5910, 5918>>, <<5943, 5951>>, <<5972, 5983>>,
    <<5997, 5997>>, <<6001, 6001>>, <<6004, 6015>>, <<6110, 6111>>,
    <<6122, 6127>>, <<6138, 6143>>, <<6158, 6158>>, <<6170, 6175>>,
    <<6265, 6271>>, <<6315, 6319>>, <<6390, 6399>>, <<6431, 6431>>,
    <<6444, 6447>>, <<6460, 6463>>, <<6465, 6467>>, <<6510, 6511>>,
    <<6517, 6527>>, <<6572, 6575>>, <<6602, 6607>>, <<6619, 6621>>,
    <<6684, 6685>>, <<6751, 6751>>, <<6781, 6782>>, <<6794, 6799>>,
    <<6810, 6815>>, <<6830, 6831>>, <<6863, 6911>>, <<6989, 6991>>,
    <<7039, 7039>>, <<7156, 7163>>, <<7224, 7226>>, <<7242, 7244>>,
    <<7305, 7311>>, <<7355, 7356>>, <<7368, 7375>>, <<7419, 7423>>,
    <<7958, 7959>>, <<7966, 7967>>, <<8006, 8007>>, <<8014, 8015>>,
    <<8024, 8024>>, <<8026, 8026>>, <<8028, 8028>>, <<8030, 8030>>,
    <<8062, 8063>>, <<8117, 8117>>, <<8133, 8133>>, <<8148, 8149>>,
    <<8156, 8156>>, <<8176, 8177>>, <<8181, 8181>>, <<8191, 8207>>,
    <<8232, 8239>>, <<8287, 8303>>, <<8306, 8307>>, <<8335, 8335>>,
    <<8349, 8351>>, <<8385, 8399>>, <<8433, 8447>>, <<8588, 8591>>,
    <<9255, 9279>>, <<9291, 9311>>, <<11124, 11125>>, <<11158, 11158>>,
    <<11508, 11512>>, <<11558, 11558>>, <<11560, 11564>>, <<11566, 11567>>,
    <<11624, 11630>>, <<11633, 11646>>, <<11671, 11679>>, <<11687, 11687>>,
    <<11695, 11695>>, <<11703, 11703>>, <<11711, 11711>>, <<11719, 11719>>,
    <<11727, 11727>>, <<11735, 11735>>, <<11743, 11743>>, <<11870, 11903>>,
    <<11930, 11930>>, <<12020, 12031>>, <<12246, 12271>>, <<12284, 12288>>,
    <<12352, 12352>>, <<12439, 12440>>, <<12544, 12548>>, <<12592, 12592>>,
    <<12687, 12687>>, <<12772, 12783>>, <<12831, 12831>>, <<42125, 42127>>,
    <<42183, 42191>>, <<42540, 42559>>, <<42744, 42751>>, <<42955, 42959>>,
    <<42962, 42962>>, <<42964, 42964>>, <<42970, 42993>>, <<43053, 43055>>,
    <<43066, 43071>>, <<43128, 43135>>, <<43206, 43213>>, <<43226, 43231>>,
    <<43348, 43358>>, <<43389, 43391>>, <<43470, 43470>>, <<43482, 43485>>,
    <<43519, 43519>>, <<43575, 43583>>, <<43598, 43599>>, <<43610, 43611>>,
    <<43715, 43738>>, <<43767, 43776>>, <<43783, 43784>>, <<43791, 43792>>,
    <<43799, 43807>>, <<43815, 43815>>, <<43823, 43823>>, <<43884, 43887>>,
    <<44014, 44015>>, <<44026, 44031>>, <<55204, 55215>>, <<55239, 55242>>,
    <<55292, 63743>>, <<64110, 64111>>, <<64218, 64255>>, <<64263, 64274>>,
    <<64280, 64284>>, <<64311, 64311>>, <<64317, 64317>>, <<64319, 64319>>,
    <<64322, 64322>>, <<64325, 64325>>, <<64451, 64466>>, <<64912, 64913>>,
    <<64968, 64974>>, <<64976, 65007>>, <<65050, 65055>>, <<65107, 65107>>,
    <<65127, 65127>>, <<65132, 65135>>, <<65141, 65141>>, <<65277, 65280>>,
    <<65471, 65473>>, <<65480, 65481>>, <<65488, 65489>>, <<65496, 65497>>,
    <<65501, 65503>>, <<65511, 65511>>, <<65519, 65531>>, <<65534, 65535>>,
    <<65548, 65548>>, <<65575, 65575>>, <<65595, 65595>>, <<65598, 65598>>,
    <<65614, 65615>>, <<65630, 65663>>, <<65787, 65791>>, <<65795, 65798>>,
    <<65844, 65846>>, <<65935, 65935>>, <<65949, 65951>>, <<65953, 65999>>,
    <<66046, 66175>>, <<66205, 66207>>, <<66257, 66271>>, <<66300, 66303>>,
    <<66340, 66348>>, <<66379, 66383>>, <<66427, 66431>>, <<66462, 66462>>,
    <<66500, 66503>>, <<66518, 66559>>, <<66718, 66719>>, <<66730, 66735>>,
    <<66772, 66775>>, <<66812, 66815>>, <<66856, 66863>>, <<66916, 66926>>,
    <<66939, 66939>>, <<66955, 66955>>, <<66963, 66963>>, <<66966, 66966>>,
    <<66978, 66978>>, <<66994, 66994>>, <<67002, 67002>>, <<67005, 67071>>,
    <<67383, 67391>>, <<67414, 67423>>, <<67432, 67455>>, <<67462, 67462>>,
    <<67505, 67505>>, <<67515, 67583>>, <<67590, 67591>>, <<67593, 67593>>,
    <<67638, 67638>>, <<67641, 67643>>, <<67645, 67646>>, <<67670, 67670>>,
    <<67743, 67750>>, <<67760, 67807>>, <<67827, 67827>>, <<67830, 67834>>,
    <<67868, 67870>>, <<67898, 67902>>, <<67904, 67967>>, <<68024, 68027>>,
    <<68048, 68049>>, <<68100, 68100>>, <<68103, 68107>>, <<68116, 68116>>,
    <<68120, 68120>>, <<68150, 68151>>, <<68155, 68158>>, <<68169, 68175>>,
    <<68185, 68191>>, <<68256, 68287>>, <<68327, 68330>>, <<68343, 68351>>,
    <<68406, 68408>>, <<68438, 68439>>, <<68467, 68471>>, <<68498, 68504>>,
    <<68509, 68520>>, <<68528, 68607>>, <<68681, 68735>>, <<68787, 68799>>,
    <<68851, 68857>>, <<68904, 68911>>, <<68922, 69215>>, <<69247, 69247>>,
    <<69290, 69290>>, <<69294, 69295>>, <<69298, 69375>>, <<69416, 69423>>,
    <<69466, 69487>>, <<69514, 69551>>, <<69580, 69599>>, <<69623, 69631>>,
    <<69710, 69713>>, <<69750, 69758>>, <<69821, 69821>>, <<69827, 69839>>,
    <<69865, 69871>>, <<69882, 69887>>, <<69941, 69941>>, <<69960, 69967>>,
    <<70007, 70015>>, <<70112, 70112>>, <<70133, 70143>>, <<70162, 70162>>,
    <<70207, 70271>>, <<70279, 70279>>, <<70281, 70281>>, <<70286, 70286>>,
    <<70302, 70302>>, <<70314, 70319>>, <<70379, 70383>>, <<70394, 70399>>,
    <<70404, 70404>>, <<70413, 70414>>, <<70417, 70418>>, <<70441, 70441>>,
    <<70449, 70449>>, <<70452, 70452>>, <<70458, 70458>>, <<70469, 70470>>,
    <<70473, 70474>>, <<70478, 70479>>, <<70481, 70486>>, <<70488, 70492>>,
    <<70500, 70501>>, <<70509, 70511>>, <<70517, 70655>>, <<70748, 70748>>,
    <<70754, 70783>>, <<70856, 70863>>, <<70874, 71039>>, <<71094, 71095>>,
    <<71134, 71167>>, <<71237, 71247>>, <<71258, 71263>>, <<71277, 71295>>,
    <<71354, 71359>>, <<71370, 71423>>, <<71451, 71452>>, <<71468, 71471>>,
    <<71495, 71679>>, <<71740, 71839>>, <<71923, 71934>>, <<71943, 71944>>,
    <<71946, 71947>>, <<71956, 71956>>, <<71959, 71959>>, <<71990, 71990>>,
    <<71993, 71994>>, <<72007, 72015>>, <<72026, 72095>>, <<72104, 72105>>,
    <<72152, 72153>>, <<72165, 72191>>, <<72264, 72271>>, <<72355, 72367>>,
    <<72441, 72703>>, <<72713, 72713>>, <<72759, 72759>>, <<72774, 72783>>,
    <<72813, 72815>>, <<72848, 72849>>, <<72872, 72872>>, <<72887, 72959>>,
    <<72967, 72967>>, <<72970, 72970>>, <<73015, 73017>>, <<73019, 73019>>,
    <<73022, 73022>>, <<73032, 73039>>, <<73050, 73055>>, <<73062, 73062>>,
    <<73065, 73065>>, <<73103, 73103>>, <<73106, 73106>>, <<73113, 73119>>,
    <<73130, 73439>>, <<73465, 73647>>, <<73649, 73663>>, <<73714, 73726>>,
    <<74650, 74751>>, <<74863, 74863>>, <<74869, 74879>>, <<75076, 77711>>,
    <<77811, 77823>>, <<78895, 82943>>, <<83527, 92159>>, <<92729, 92735>>,
    <<92767, 92767>>, <<92778, 92781>>, <<92863, 92863>>, <<92874, 92879>>,
    <<92910, 92911>>, <<92918, 92927>>, <<92998, 93007>>, <<93018, 93018>>,
    <<93026, 93026>>, <<93048, 93052>>, <<93072, 93759>>, <<93851, 93951>>,
    <<94027, 94030>>, <<94088, 94094>>, <<94112, 94175>>, <<94181, 94191>>,
    <<94194, 94207>>, <<100344, 100351>>, <<101590, 101631>>,
    <<101641, 110575>>, <<110580, 110580>>, <<110588, 110588>>,
    <<110591, 110591>>, <<110883, 110927>>, <<110931, 110947>>,
    <<110952, 110959>>, <<111356, 113663>>, <<113771, 113775>>,
    <<113789, 113791>>, <<113801, 113807>>, <<113818, 113819>>,
    <<113824, 118527>>, <<118574, 118575>>, <<118599, 118607>>,
    <<118724, 118783>>, <<119030, 119039>>, <<119079, 119080>>,
    <<119155, 119162>>, <<119275, 119295>>, <<119366, 119519>>,
    <<119540, 119551>>, <<119639, 119647>>, <<119673, 119807>>,
    <<119893, 119893>>, <<119965, 119965>>, <<119968, 119969>>,
    <<119971, 119972>>, <<119975, 119976>>, <<119981, 119981>>,
    <<119994, 119994>>, <<119996, 119996>>, <<120004, 120004>>,
    <<120070, 120070>>, <<120075, 120076>>, <<120085, 120085>>,
    <<120093, 120093>>, <<120122, 120122>>, <<120127, 120127>>,
    <<120133, 120133>>, <<120135, 120137>>, <<120145, 120145>>,
    <<120486, 120487>>, <<120780, 120781>>, <<121484, 121498>>,
    <<121504, 121504>>, <<121520, 122623>>, <<122655, 122879>>,
    <<122887, 122887>>, <<122905, 122906>>, <<122914, 122914>>,
    <<122917, 122917>>, <<122923, 123135>>, <<123181, 123183>>,
    <<123198, 123199>>, <<123210, 123213>>, <<123216, 123535>>,
    <<123567, 123583>>, <<123642, 123646>>, <<123648, 124895>>,
    <<124903, 124903>>, <<124908, 124908>>, <<124911, 124911>>,
    <<124927, 124927>>, <<125125, 125126>>, <<125143, 125183>>,
    <<125260, 125263>>, <<125274, 125277>>, <<125280, 126064>>,
    <<126133, 126208>>, <<126270, 126463>>, <<126468, 126468>>,
    <<126496, 126496>>, <<126499, 126499>>, <<126501, 126502>>,
    <<126504, 126504>>, <<126515, 126515>>, <<126520, 126520>>,
    <<126522, 126522>>, <<126524, 126529>>, <<126531, 126534>>,
    <<126536, 126536>>, <<126538, 126538>>, <<126540, 126540>>,
    <<126544, 126544>>, <<126547, 126547>>, <<126549, 126550>>,
    <<126552, 126552>>, <<126554, 126554>>, <<126556, 126556>>,
    <<126558, 126558>>, <<126560, 126560>>, <<126563, 126563>>,
    <<126565, 126566>>, <<126571, 126571>>, <<126579, 126579>>,
    <<126584, 126584>>, <<126589, 126589>>, <<126591, 126591>>,
    <<126602, 126602>>, <<126620, 126624>>, <<126628, 126628>>,
    <<126634, 126634>>, <<126652, 126703>>, <<126706, 126975>>,
    <<127020, 127023>>, <<127124, 127135>>, <<127151, 127152>>,
    <<127168, 127168>>, <<127184, 127184>>, <<127222, 127231>>,
    <<127406, 127461>>, <<127491, 127503>>, <<127548, 127551>>,
    <<127561, 127567>>, <<127570, 127583>>, <<127590, 127743>>,
    <<128728, 128732>>, <<128749, 128751>>, <<128765, 128767>>,
    <<128884, 128895>>, <<128985, 128991>>, <<129004, 129007>>,
    <<129009, 129023>>, <<129036, 129039>>, <<129096, 129103>>,
    <<129114, 129119>>, <<129160, 129167>>, <<129198, 129199>>,
    <<129202, 129279>>, <<129620, 129631>>, <<129646, 129647>>,
    <<129653, 129655>>, <<129661, 129663>>, <<129671, 129679>>,
    <<129709, 129711>>, <<129723, 129727>>, <<129734, 129743>>,
    <<129754, 129759>>, <<129768, 129775>>, <<129783, 129791>>,
    <<129939, 129939>>, <<129995, 130031>>, <<130042, 131071>>,
    <<173792, 173823>>, <<177977, 177983>>, <<178206, 178207>>,
    <<183970, 183983>>, <<191457, 194559>>, <<195102, 196607>>,
    <<201547, 917759>>, <<918000, 1114111>>>>

\* chr(n).isprintable()
IsPrintable(n) ==
  /\ n >= 32
  /\ n # 127
  /\ \A i \in 1..Len(NonPrintableRanges) :
       n < NonPrintableRanges[i][1] \/ n > NonPrintableRanges[i][2]

\* the texts f[s[1]], f[s[2]], ... one after the other
RECURSIVE ConcatMap(_, _)
ConcatMap(s, f) ==
  IF s = <<>> THEN <<>> ELSE f[Head(s)] \o ConcatMap(Tail(s), f)

\* The escape repr() writes for one character of a str delimited by `quote`:
\* the backslash and the delimiter get a backslash, "\t", "\n", "\r" their
\* letter, every other character that is not printable \xNN, \uNNNN or
\* \UNNNNNNNN by the size of its code point; a printable character is itself.
ReprChar(c, quote) ==
  CASE c = "\\" -> <<"\\", "\\">>
    [] c = quote -> <<"\\", quote>>
    [] c = "\t" -> <<"\\", "t">>
    [] c = NL -> <<"\\", "n">>
    [] c = CR -> <<"\\", "r">>
    [] OTHER ->
         LET n == Ord(c)
         IN  IF IsPrintable(n) THEN <<c>>
             ELSE IF n < 256 THEN <<"\\", "x">> \o Hex(n, 2)
             ELSE IF n < 65536 THEN <<"\\", "u">> \o Hex(n, 4)
             ELSE <<"\\", "U">> \o Hex(n, 8)

\* repr(s) of a str: between double quotes when s holds an apostrophe and no
\* double quote, between apostrophes otherwise
Repr(s) ==
  LET quote == IF (\E i \in 1..Len(s) : s[i] = "'") /\
                  ~(\E i \in 1..Len(s) : s[i] = "\"")
               THEN "\"" ELSE "'"
      chars == {s[i] : i \in 1..Len(s)}
  IN  <<quote>> \o ConcatMap(s, [c \in chars |-> ReprChar(c, quote)]) \o <<quote>>

\* The escape json.dump(..., ensure_ascii=False) writes for one character:
\* the quote and the backslash get a backslash, the characters below U+0020
\* their letter (\b, \t, \n, \f, \r) or \u00NN; every other character is
\* written as it is.
JsonChar(c) ==
  CASE c = "\\" -> <<"\\", "\\">>
    [] c = "\"" -> <<"\\", "\"">>
    [] c = NL -> <<"\\", "n">>
    [] c = CR -> <<"\\", "r">>
    [] c = "\t" -> <<"\\", "t">>
    [] c = "\f" -> <<"\\", "f">>
    [] c = "<U+0008>" -> <<"\\", "b">>
    [] OTHER -> IF Ord(c) < 32 THEN <<"\\", "u">> \o Hex(Ord(c), 4) ELSE <<c>>

\* a JSON string
JsonString(s) ==
  LET chars == {s[i] : i \in 1..Len(s)}
  IN  <<"\"">> \o ConcatMap(s, [c \in chars |-> JsonChar(c)]) \o <<"\"">>

-----------------------------------------------------------------------------
(* Files *)

\* no file at the path
Absent == [exists |-> FALSE, content |-> <<>>]

\* a file holding the UTF-8 encoding of the text `content`
File(content) == [exists |-> TRUE, content |-> content]

\* a file holding the bytes `bytes`, numbers in 0..255
Raw(bytes) == [exists |-> TRUE, content |-> <<>>, bytes |-> bytes]

IsContinuation(b) == b \in 128..191

\* What the UTF-8 decoder makes of the bytes from position i on: the code
\* point of one character and the number of its bytes, or the error it
\* raises, with the positions start and end counted from 0 as
\* UnicodeDecodeError holds them.
Utf8Step(bs, i) ==
  LET n == Len(bs)
      b1 == bs[i]
      b2 == bs[i + 1]
      b3 == bs[i + 2]
      b4 == bs[i + 3]
      Char(cp, k) == [ok |-> TRUE, cp |-> cp, len |-> k]
      Start == [ok |-> FALSE, start |-> i - 1, end |-> i,
                reason |-> InvalidStartByte]
      Cont(k) == [ok |-> FALSE, start |-> i - 1, end |-> i + k - 2,
                  reason |-> InvalidContinuationByte]
      End == [ok |-> FALSE, start |-> i - 1, end |-> n,
              reason |-> UnexpectedEndOfData]
  IN  IF b1 < 128 THEN Char(b1, 1)
      ELSE IF b1 < 194 \/ b1 > 244 THEN Start
      ELSE IF b1 < 224 THEN
        IF i + 1 > n THEN End
        ELSE IF ~IsContinuation(b2) THEN Cont(2)
        ELSE Char((b1 - 192) * 64 + (b2 - 128), 2)
      ELSE IF b1 < 240 THEN
        IF i + 1 > n THEN End
        ELSE IF \/ ~IsContinuation(b2)
                \/ b1 = 224 /\ b2 < 160
                \/ b1 = 237 /\ b2 >= 160 THEN Cont(2)
        ELSE IF i + 2 > n THEN End
        ELSE IF ~IsContinuation(b3) THEN Cont(3)
        ELSE Char((b1 - 224) * 4096 + (b2 - 128) * 64 + (b3 - 128), 3)
      ELSE
        IF i + 1 > n THEN End
        ELSE IF \/ ~IsContinuation(b2)
                \/ b1 = 240 /\ b2 < 144
                \/ b1 = 244 /\ b2 >= 144 THEN Cont(2)
        ELSE IF i + 2 > n THEN End
        ELSE IF ~IsContinuation(b3) THEN Cont(3)
        ELSE IF i + 3 > n THEN End
        ELSE IF ~IsContinuation(b4) THEN Cont(4)
        ELSE Char((b1 - 240) * 262144 + (b2 - 128) * 4096 + (b3 - 128) * 64
                    + (b4 - 128), 4)

\* bytes.decode('utf-8') from position i on: the text, or the first error
RECURSIVE Utf8From(_, _)
Utf8From(bs, i) ==
  IF i > Len(bs) THEN [ok |-> TRUE, text |-> <<>>]
  ELSE LET step == Utf8Step(bs, i)
       IN  IF ~step.ok THEN step
           ELSE LET rest == Utf8From(bs, i + step.len)
                IN  IF ~rest.ok THEN rest
                    ELSE [ok |-> TRUE, text |-> <<Chr(step.cp)>> \o rest.text]

Utf8Decode(bs) == Utf8From(bs, 1)

\* str(e) of the UnicodeDecodeError e raised for the bytes bs
DecodeErrorMessage(bs, e) ==
  CannotDecode
    \o (IF e.end = e.start + 1
        THEN ByteText \o Hex(bs[e.start + 1], 2) \o InPosition \o Decimal(e.start)
        ELSE BytesText \o InPosition \o Decimal(e.start) \o <<"-">>
               \o Decimal(e.end - 1))
    \o <<":", " ">> \o e.reason

\* text mode with newline=None: "\r\n" and "\r" are read as "\n"
UniversalNewlines(s) == Replace(Replace(s, <<CR, NL>>, <<NL>>), <<CR>>, <<NL>>)

\* str(e) of the FileNotFoundError open() raises for `path`:
\* "[Errno 2] No such file or directory: " and repr(path)
NoSuchFileMessage(path) == NoSuchFile \o Repr(path)

\* with open(path, 'r', encoding='utf-8') as f: f.read()
OpenRead(fsys, path) ==
  LET file == fsys.files[path]
      decoded == IF "bytes" \in DOMAIN file THEN Utf8Decode(file.bytes)
                 ELSE [ok |-> TRUE, text |-> file.content]
  IN  IF ~file.exists
      THEN [ok |-> FALSE, content |-> <<>>, error |-> NoSuchFileMessage(path)]
      ELSE IF ~decoded.ok
      THEN [ok |-> FALSE, content |-> <<>>,
            error |-> DecodeErrorMessage(file.bytes, decoded)]
      ELSE [ok |-> TRUE, content |-> UniversalNewlines(decoded.text),
            error |-> <<>>]

\* os.path.dirname(path) of posixpath: the text up to the last "/", without
\* its trailing slashes unless it is made of slashes only; '' when path has
\* no "/"
Dirname(path) ==
  LET slashes == {i \in 1..Len(path) : path[i] = "/"}
      last == IF slashes = {} THEN 0
              ELSE CHOOSE i \in slashes : \A j \in slashes : j <= i
      head == SubSeq(path, 1, last)
      others == {i \in 1..Len(head) : head[i] # "/"}
  IN  IF others = {} THEN head
      ELSE SubSeq(head, 1, CHOOSE i \in others : \A j \in others : j <= i)

\* A directory is one of
\*   "exists"    it is there and files can be created or replaced in it
\*   "missing"   it is not there and can be created
\*   "readonly"  it is there, its files can be neither created nor replaced
\* The current directory is there and writable; its Dirname, '', is no
\* directory makedirs accepts.
DirKinds == {"exists", "missing", "readonly"}

\* os.makedirs(os.path.dirname(path), exist_ok=True); os.makedirs('') raises
\* FileNotFoundError
MakeDirs(fsys, path) ==
  LET d == Dirname(path)
  IN  IF d = <<>> THEN [ok |-> FALSE, fs |-> fsys]
      ELSE [ok |-> TRUE,
            fs |-> IF fsys.dirs[d] = "missing"
                   THEN [fsys EXCEPT !.dirs[d] = "exists"]
                   ELSE fsys]

\* with open(path, 'w', encoding='utf-8') as f: f.write(text), after the
\* makedirs; "\n" is written as it is (os.linesep of a POSIX system)
OpenWrite(fsys, path, text) ==
  IF fsys.dirs[Dirname(path)] = "exists"
  THEN [ok |-> TRUE, fs |-> [fsys EXCEPT !.files[path] = File(text)]]
  ELSE [ok |-> FALSE, fs |-> fsys]

\* the makedirs and the write of generate_api_docs and of
\* generate_validation_report, inside their try block
WriteFile(fsys, path, text) ==
  LET mk == MakeDirs(fsys, path)
  IN  IF mk.ok THEN OpenWrite(mk.fs, path, text) ELSE mk

-----------------------------------------------------------------------------
(* validate_template_content *)

required_sections ==
  <<OverviewHeading, AuthenticationHeading, EndpointsHeading, ExamplesHeading,
    ErrorCodesHeading>>

\* the loop over required_sections from its k-th element on
RECURSIVE MissingFrom(_, _, _)
MissingFrom(content, k, missing) ==
  IF k > Len(required_sections) THEN missing
  ELSE MissingFrom(content, k + 1,
                   IF ~Contains(content, required_sections[k])
                   THEN Append(missing, required_sections[k])
                   ELSE missing)

\* a loop that stops one element short of the end of required_sections
missing_sections_short(content) ==
  SelectSeq(MissingFrom(content, 1, <<>>), LAMBDA h : h # ErrorCodesHeading)

missing_sections(content) == MissingFrom(content, 1, <<>>)

validate_template_content(content) ==
  LET missing == missing_sections(content)
  IN  [known |-> TRUE, valid |-> (missing = <<>>), missing |-> missing]

-----------------------------------------------------------------------------
(* generate_api_docs *)

\* metadata is None, or a dict with the keys `keys`
MetaNone == [isNone |-> TRUE, keys |-> {}, version |-> <<>>]

MetaEmpty == [isNone |-> FALSE, keys |-> {}, version |-> <<>>]

MetaVersion == [isNone |-> FALSE, keys |-> {"version"}, version |-> OtherVersion]

MetaNoVersion == [isNone |-> FALSE, keys |-> {"template_version"}, version |-> <<>>]

\* the dict main builds
MainMetadata ==
  [isNone |-> FALSE, keys |-> {"version", "generated_at", "template_version"},
   version |-> DefaultVersion]

\* if metadata:
Truthy(md) == ~md.isNone /\ md.keys # {}

\* metadata.get('version', '1.0.0')
GetVersion(md) == IF "version" \in md.keys THEN md.version ELSE DefaultVersion

metadata_section(md, ts) ==
  GeneratedOpen \o IsoFormat(ts) \o CommentClose
    \o VersionOpen \o GetVersion(md) \o CommentClose

RenderContent(content, md, ts) ==
  IF Truthy(md)
  THEN Replace(content, Title, Title \o metadata_section(md, ts))
  ELSE content

generate_api_docs(content, fsys, output_path, md, ts) ==
  WriteFile(fsys, output_path, RenderContent(content, md, ts))

-----------------------------------------------------------------------------
(* validate_generated_docs *)

InitialResults ==
  [has_overview |-> FALSE, has_authentication |-> FALSE, has_endpoints |-> FALSE,
   has_examples |-> FALSE, has_error_codes |-> FALSE, has_http_examples |-> FALSE,
   has_json_examples |-> FALSE, line_count |-> 0, word_count |-> 0,
   validation_passed |-> FALSE]

\* a list of checks that leaves the two example-block checks out
required_checks_sections_only(r) ==
  <<r.has_overview, r.has_authentication, r.has_endpoints, r.has_examples,
    r.has_error_codes>>

required_checks(r) ==
  <<r.has_overview, r.has_authentication, r.has_endpoints, r.has_examples,
    r.has_error_codes, r.has_http_examples, r.has_json_examples>>

ContentChecks(content) ==
  [has_overview |-> Contains(content, OverviewHeading),
   has_authentication |-> Contains(content, AuthenticationHeading),
   has_endpoints |-> Contains(content, EndpointsHeading),
   has_examples |-> Contains(content, ExamplesHeading),
   has_error_codes |-> Contains(content, ErrorCodesHeading),
   has_http_examples |-> Contains(content, HttpFence),
   has_json_examples |-> Contains(content, JsonFence)]

validate_generated_docs(fsys, docs_path) ==
  LET r == OpenRead(fsys, docs_path)
      c == ContentChecks(r.content)
  IN  IF r.ok
      THEN [has_overview |-> c.has_overview,
            has_authentication |-> c.has_authentication,
            has_endpoints |-> c.has_endpoints,
            has_examples |-> c.has_examples,
            has_error_codes |-> c.has_error_codes,
            has_http_examples |-> c.has_http_examples,
            has_json_examples |-> c.has_json_examples,
            line_count |-> LineCount(r.content),
            word_count |-> WordCount(r.content),
            validation_passed |-> All(required_checks(c))]
      ELSE [has_overview |-> FALSE, has_authentication |-> FALSE,
            has_endpoints |-> FALSE, has_examples |-> FALSE,
            has_error_codes |-> FALSE, has_http_examples |-> FALSE,
            has_json_examples |-> FALSE, line_count |-> 0, word_count |-> 0,
            validation_passed |-> FALSE, error |-> r.error]

-----------------------------------------------------------------------------
(* generate_validation_report *)

\* sum([1 for check in [...] if check])
passed_checks(r) ==
  Cardinality({i \in 1..Len(required_checks(r)) : required_checks(r)[i]})

report_data(r, ts) ==
  [timestamp |-> IsoFormat(ts),
   validation_results |-> r,
   summary |-> [passed |-> r.validation_passed,
                total_checks |-> 7,
                passed_checks |-> passed_checks(r)]]

JsonBool(b) == IF b THEN JsonTrue ELSE JsonFalse

\* the keys and the JSON values of validation_results, in the order the dict
\* holds them; 'error' is there when the file could not be read
ResultMembers(r) ==
  << <<KeyHasOverview, JsonBool(r.has_overview)>>,
     <<KeyHasAuthentication, JsonBool(r.has_authentication)>>,
     <<KeyHasEndpoints, JsonBool(r.has_endpoints)>>,
     <<KeyHasExamples, JsonBool(r.has_examples)>>,
     <<KeyHasErrorCodes, JsonBool(r.has_error_codes)>>,
     <<KeyHasHttpExamples, JsonBool(r.has_http_examples)>>,
     <<KeyHasJsonExamples, JsonBool(r.has_json_examples)>>,
     <<KeyLineCount, Decimal(r.line_count)>>,
     <<KeyWordCount, Decimal(r.word_count)>>,
     <<KeyValidationPassed, JsonBool(r.validation_passed)>> >>
    \o (IF "error" \in DOMAIN r
        THEN << <<KeyError, JsonString(r.error)>> >>
        ELSE <<>>)

SummaryMembers(s) ==
  << <<KeyPassed, JsonBool(s.passed)>>,
     <<KeyTotalChecks, Decimal(s.total_checks)>>,
     <<KeyPassedChecks, Decimal(s.passed_checks)>> >>

Indent(level) == [i \in 1..(2 * level) |-> " "]

\* the lines `"key": value` of an object, a comma after all but the last
MemberLines(members, level) ==
  [i \in 1..Len(members) |->
     Indent(level) \o <<"\"">> \o members[i][1] \o <<"\"", ":", " ">>
       \o members[i][2] \o (IF i < Len(members) THEN <<",">> ELSE <<>>)]

RECURSIVE JoinWith(_, _)
JoinWith(ls, sep) ==
  IF Len(ls) = 0 THEN <<>>
  ELSE IF Len(ls) = 1 THEN ls[1]
  ELSE ls[1] \o sep \o JoinWith(Tail(ls), sep)

\* json.dump(report_data, f, indent=2, ensure_ascii=False)
json_dump(data) ==
  JoinWith(
    << <<"{">> >>
      \o << Indent(1) \o <<"\"">> \o KeyTimestamp \o <<"\"", ":", " ">>
              \o JsonString(data.timestamp) \o <<",">> >>
      \o << Indent(1) \o <<"\"">> \o KeyValidationResults
              \o <<"\"", ":", " ", "{">> >>
      \o MemberLines(ResultMembers(data.validation_results), 2)
      \o << Indent(1) \o <<"}", ",">> >>
      \o << Indent(1) \o <<"\"">> \o KeySummary \o <<"\"", ":", " ", "{">> >>
      \o MemberLines(SummaryMembers(data.summary), 2)
      \o << Indent(1) \o <<"}">> >>
      \o << <<"}">> >>,
    <<NL>>)

generate_validation_report(r, fsys, report_path, ts) ==
  WriteFile(fsys, report_path, json_dump(report_data(r, ts)))

-----------------------------------------------------------------------------
(* Inputs: the template texts and the file systems a run starts from *)

RECURSIVE JoinLines(_)
JoinLines(ls) ==
  IF Len(ls) = 0 THEN <<>> ELSE ls[1] \o <<NL>> \o JoinLines(Tail(ls))

OverviewVariants == {"absent", "exact", "deeper", "longer", "lower"}

OverviewLines(ov) ==
  CASE ov = "absent" -> <<>>
    [] ov = "exact" -> <<OverviewHeading>>
    [] ov = "deeper" -> <<DeeperOverview>>
    [] ov = "longer" -> <<LongerOverview>>
    [] ov = "lower" -> <<LowerOverview>>

OtherSections == {"authentication", "endpoints", "examples", "error_codes"}

SectionLine(present, name, heading) ==
  IF name \in present THEN <<heading>> ELSE <<>>

Profiles == {"none", "http", "http_badjson", "full", "http_crlf"}

ProfileLines(prof) ==
  CASE prof = "none" -> <<>>
    [] prof = "http" -> <<HttpBlock>>
    [] prof = "http_badjson" -> <<HttpBlock, BadJsonBlock>>
    [] prof = "full" -> <<HttpBlock, JsonBlock, TableLine>>
    [] prof = "http_crlf" -> <<CrLfHttpBlock, JsonBlock, FormFeedLine>>

\* n copies of the title literal (the first one as the title, the others as
\* later lines), or another title when n = 0
TemplateText(n, ov, present, prof) ==
  JoinLines(
    <<IF n = 0 THEN OtherTitle ELSE Title>>
      \o OverviewLines(ov)
      \o SectionLine(present, "authentication", AuthenticationHeading)
      \o SectionLine(present, "endpoints", EndpointsHeading)
      \o SectionLine(present, "examples", ExamplesHeading)
      \o SectionLine(present, "error_codes", ErrorCodesHeading)
      \o ProfileLines(prof)
      \o (IF n <= 1 THEN <<>> ELSE [i \in 1..(n - 1) |-> Title]))

MainTemplates ==
  {TemplateText(n, ov, present, prof) :
     n \in 0..MaxTitleCopies, ov \in OverviewVariants,
     present \in {OtherSections, OtherSections \ {"error_codes"}},
     prof \in Profiles}

LibTemplates ==
  {TemplateText(n, ov, present, prof) :
     n \in 0..MaxTitleCopies, ov \in OverviewVariants,
     present \in SUBSET OtherSections, prof \in {"none", "full", "http_crlf"}}

Metadatas == {MetaNone, MetaEmpty, MetaVersion, MetaNoVersion, MainMetadata}

GoodDoc == TemplateText(1, "exact", OtherSections, "full")

BadDoc == TemplateText(0, "deeper", OtherSections \ {"error_codes"}, "http")

\* the paths a command line can name
AllPaths ==
  {TemplatePath, OutputPath, BareOutputPath, QuotedOutputPath, RootOutputPath,
   ReportPath, SharedDirReportPath, BareReportPath}

\* their directories, and '' for the bare file names
AllDirs == {TplDir, OutDir, RepDir, RootDir, <<>>}

\* --output: a path of its own, a bare file name, a name with an apostrophe,
\* a file of the root directory, or the path of the template
OutputPaths ==
  {OutputPath, BareOutputPath, QuotedOutputPath, RootOutputPath, TemplatePath}

\* --report: a path of its own, a path in the directory of the output, a bare
\* file name, the path of the output, or the path of the template
ReportPaths ==
  {ReportPath, SharedDirReportPath, BareReportPath, OutputPath, TemplatePath}

\* a report left by an earlier run, which found BadDoc at the output path
OldReport ==
  LET before == [files |-> [p \in AllPaths |-> File(BadDoc)],
                 dirs |-> [d \in AllDirs |-> "exists"]]
  IN  File(json_dump(report_data(validate_generated_docs(before, OutputPath), 0)))

\* The file system in which the template path holds t, the output path o holds
\* of and the report path r holds rf; where two of the paths are the same path,
\* the file is the template's, else the output's.
FileSystem(t, o, of, r, rf, outdir, repdir) ==
  [files |-> [p \in AllPaths |->
                IF p = TemplatePath THEN t
                ELSE IF p = o THEN of
                ELSE IF p = r THEN rf
                ELSE Absent],
   dirs |-> [d \in AllDirs |->
               IF d = OutDir THEN outdir
               ELSE IF d = RepDir THEN repdir
               ELSE "exists"]]

\* a file that is not UTF-8: the byte 0xff
NotUtf8 == Raw(<<255>>)

\* the bytes of "# \u00e9\n", a title alone
Latin1Title == Raw(<<35, 32, 195, 169, 10>>)

\* the bytes of "# " and a two-byte character with "(" in place of its second byte
BrokenTitle == Raw(<<35, 32, 195, 40>>)

\* the files a path can hold before the run, given its directory
OutputFilesIn(kind) ==
  IF kind = "missing" THEN {Absent}
  ELSE IF kind = "exists"
  THEN {Absent, File(GoodDoc), File(BadDoc), BrokenTitle}
  ELSE {Absent, File(BadDoc)}

ReportFilesIn(kind) == IF kind = "missing" THEN {Absent} ELSE {Absent, OldReport}

DirKindOf(path, outdir, repdir) ==
  IF Dirname(path) = OutDir THEN outdir
  ELSE IF Dirname(path) = RepDir THEN repdir
  ELSE "exists"

\* the file systems and paths a run starts from, for the template file t
InitialFiles(t) ==
  \E o \in OutputPaths, r \in ReportPaths, outdir \in DirKinds, repdir \in DirKinds :
    \E of \in OutputFilesIn(DirKindOf(o, outdir, repdir)),
       rf \in ReportFilesIn(DirKindOf(r, outdir, repdir)) :
      /\ o # OutputPath => r = ReportPath /\ repdir = "exists"
      /\ r \in {BareReportPath, OutputPath, TemplatePath} => outdir = "exists"
      /\ OutDir \notin {Dirname(o), Dirname(r)} => outdir = "exists"
      /\ RepDir \notin {Dirname(o), Dirname(r)} => repdir = "exists"
      /\ o \in {TemplatePath, QuotedOutputPath, RootOutputPath} => of = Absent
      /\ o = QuotedOutputPath => outdir = "exists"
      /\ r \in {o, TemplatePath} => rf = Absent
      /\ paths = [template |-> TemplatePath, output |-> o, report |-> r]
      /\ fs = FileSystem(t, o, of, r, rf, outdir, repdir)

TemplateFiles ==
  {Absent, NotUtf8, Latin1Title} \cup {File(t) : t \in MainTemplates}

\* the command lines: accepted (with or without --validate-only), --help, and
\* one argparse rejects
ArgvKinds == {"default", "validate_only", "help", "usage_error"}

\* sys.stdout encodes every character ("unicode": UTF-8), or has an encoding
\* without the check marks and crosses of the summary ("legacy": ASCII, cp1252)
Consoles == {"unicode", "legacy"}

NoSteps == [loaded |-> FALSE, gen_ok |-> FALSE, report_ok |-> FALSE]

NoPre == [known |-> FALSE, valid |-> FALSE, missing |-> <<>>]

-----------------------------------------------------------------------------
(* main *)

Init ==
  /\ argv \in ArgvKinds
  /\ console \in Consoles
  /\ pc = "start"
  /\ \E t \in (IF argv = "default" THEN TemplateFiles ELSE {Absent, File(GoodDoc)}) :
       InitialFiles(t)
  /\ fs0 = fs
  /\ clock = 0
  /\ template_content = <<>>
  /\ metadata = MetaNone
  /\ pre = NoPre
  /\ validation_results = InitialResults
  /\ steps = NoSteps
  /\ calls = <<>>
  /\ reads = {}
  /\ writes = {}
  /\ exit_code = -1

\* sys.exit(code)
Exit(code) == pc' = "exited" /\ exit_code' = code

\* where main goes once parse_args has returned
AfterParse(kind) == IF kind # "validate_only" THEN "load" ELSE "validate"

\* parser.parse_args(): --help prints the usage and exits 0, a command line
\* argparse rejects exits 2
ParseArgs ==
  /\ pc = "start"
  /\ IF argv = "help" THEN Exit(0)
     ELSE IF argv = "usage_error" THEN Exit(2)
     ELSE pc' = AfterParse(argv) /\ UNCHANGED exit_code
  /\ UNCHANGED <<argv, console, paths, fs, fs0, clock, template_content, metadata, pre,
                 validation_results, steps, calls, reads, writes>>

\* a load_template that returns an empty text when the file cannot be read
load_template_lenient(fsys, template_path) ==
  [exit |-> FALSE, content |-> OpenRead(fsys, template_path).content]

load_template(fsys, template_path) ==
  LET r == OpenRead(fsys, template_path)
  IN  [exit |-> ~r.ok, content |-> r.content]

LoadTemplate ==
  /\ pc = "load"
  /\ calls' = Append(calls, "load_template")
  /\ reads' = reads \cup {paths.template}
  /\ LET l == load_template(fs, paths.template)
     IN  IF l.exit
         THEN Exit(1) /\ UNCHANGED <<template_content, steps>>
         ELSE /\ template_content' = l.content
              /\ steps' = [steps EXCEPT !.loaded = TRUE]
              /\ pc' = "prevalidate"
              /\ UNCHANGED exit_code
  /\ UNCHANGED <<argv, console, paths, fs, fs0, clock, metadata, pre, validation_results, writes>>

\* a main that goes on to generate whatever the validator said
AfterValidateTemplateAlways(valid) == "generate"

\* if not validate_template_content(template_content): sys.exit(1)
AfterValidateTemplate(valid) == IF ~valid THEN "exited" ELSE "generate"

ValidateTemplate ==
  /\ pc = "prevalidate"
  /\ calls' = Append(calls, "validate_template_content")
  /\ pre' = validate_template_content(template_content)
  /\ pc' = AfterValidateTemplate(pre'.valid)
  /\ exit_code' = IF pc' = "exited" THEN 1 ELSE exit_code
  /\ UNCHANGED <<argv, console, paths, fs, fs0, clock, template_content, metadata,
                 validation_results, steps, reads, writes>>

\* The clock is read for metadata['generated_at'] and again inside
\* generate_api_docs; only the second reading reaches the document.
\* datetime.now() is local wall-clock time: a reading may be earlier than the
\* one before it, so each reading is any value of 0..MaxClock.
Generate ==
  /\ pc = "generate"
  /\ calls' = Append(calls, "generate_api_docs")
  /\ metadata' = MainMetadata
  /\ \E ts \in 0..MaxClock :
       LET g == generate_api_docs(template_content, fs, paths.output, metadata', ts)
       IN  /\ clock' = ts
           /\ fs' = g.fs
           /\ steps' = [steps EXCEPT !.gen_ok = g.ok]
           /\ writes' = IF g.ok THEN writes \cup {paths.output} ELSE writes
           /\ IF g.ok THEN pc' = "validate" /\ UNCHANGED exit_code ELSE Exit(1)
  /\ UNCHANGED <<argv, console, paths, fs0, template_content, pre, validation_results, reads>>

ValidateGenerated ==
  /\ pc = "validate"
  /\ calls' = Append(calls, "validate_generated_docs")
  /\ reads' = reads \cup {paths.output}
  /\ validation_results' = validate_generated_docs(fs, paths.output)
  /\ pc' = "report"
  /\ UNCHANGED <<argv, console, paths, fs, fs0, clock, template_content, metadata, pre, steps,
                 writes, exit_code>>

WriteReport ==
  /\ pc = "report"
  /\ calls' = Append(calls, "generate_validation_report")
  /\ \E ts \in 0..MaxClock :
       LET w == generate_validation_report(validation_results, fs, paths.report, ts)
       IN  /\ clock' = ts
           /\ fs' = w.fs
           /\ steps' = [steps EXCEPT !.report_ok = w.ok]
           /\ writes' = IF w.ok THEN writes \cup {paths.report} ELSE writes
           /\ IF w.ok THEN pc' = "summary" /\ UNCHANGED exit_code ELSE Exit(1)
  /\ UNCHANGED <<argv, console, paths, fs0, template_content, metadata, pre, validation_results,
                 reads>>

\* if not validation_results['validation_passed']: sys.exit(1) else: sys.exit(0)
SummaryExitCode(r) == IF ~r.validation_passed THEN 1 ELSE 0

\* The first line of the summary that holds a check mark or a cross raises
\* UnicodeEncodeError on a console that cannot encode it; nothing in main
\* catches it, and the interpreter ends with a traceback and status 1.
PrintSummary ==
  /\ pc = "summary"
  /\ IF console = "unicode"
     THEN Exit(SummaryExitCode(validation_results))
     ELSE pc' = "crashed" /\ exit_code' = 1
  /\ UNCHANGED <<argv, console, paths, fs, fs0, clock, template_content, metadata, pre,
                 validation_results, steps, calls, reads, writes>>

Next ==
  \/ ParseArgs
  \/ LoadTemplate
  \/ ValidateTemplate
  \/ Generate
  \/ ValidateGenerated
  \/ WriteReport
  \/ PrintSummary

Spec == Init /\ [][Next]_vars

-----------------------------------------------------------------------------
(* The functions of the module called one after the other by a program    *)
(* that imports it, on a template text it holds in memory                  *)

LibInit ==
  /\ argv = "library"
  /\ console = "unicode"
  /\ pc = "lib_validate"
  /\ template_content \in LibTemplates
  /\ metadata \in Metadatas
  /\ \E o \in {OutputPath, BareOutputPath} :
       /\ paths = [template |-> TemplatePath, output |-> o, report |-> ReportPath]
       /\ fs = FileSystem(Absent, o, Absent, ReportPath, Absent, "exists", "exists")
  /\ fs0 = fs
  /\ clock = 0
  /\ pre = NoPre
  /\ validation_results = InitialResults
  /\ steps = NoSteps
  /\ calls = <<>>
  /\ reads = {}
  /\ writes = {}
  /\ exit_code = -1

LibValidateTemplate ==
  /\ pc = "lib_validate"
  /\ calls' = Append(calls, "validate_template_content")
  /\ pre' = validate_template_content(template_content)
  /\ pc' = "lib_generate"
  /\ UNCHANGED <<argv, console, paths, fs, fs0, clock, template_content, metadata,
                 validation_results, steps, reads, writes, exit_code>>

LibGenerate ==
  /\ pc = "lib_generate"
  /\ calls' = Append(calls, "generate_api_docs")
  /\ \E ts \in (IF Truthy(metadata) THEN 0..MaxClock ELSE {clock}) :
       LET g == generate_api_docs(template_content, fs, paths.output, metadata, ts)
       IN  /\ clock' = ts
           /\ fs' = g.fs
           /\ steps' = [steps EXCEPT !.gen_ok = g.ok]
           /\ writes' = IF g.ok THEN writes \cup {paths.output} ELSE writes
  /\ pc' = "lib_postvalidate"
  /\ UNCHANGED <<argv, console, paths, fs0, template_content, metadata, pre, validation_results,
                 reads, exit_code>>

LibValidateGenerated ==
  /\ pc = "lib_postvalidate"
  /\ calls' = Append(calls, "validate_generated_docs")
  /\ reads' = reads \cup {paths.output}
  /\ validation_results' = validate_generated_docs(fs, paths.output)
  /\ pc' = "lib_done"
  /\ UNCHANGED <<argv, console, paths, fs, fs0, clock, template_content, metadata, pre, steps,
                 writes, exit_code>>

LibNext ==
  \/ LibValidateTemplate
  \/ LibGenerate
  \/ LibValidateGenerated

LibSpec == LibInit /\ [][LibNext]_vars

-----------------------------------------------------------------------------
(* Properties *)

Called(f) == \E i \in 1..Len(calls) : calls[i] = f

IsPrefix(a, b) == Len(a) <= Len(b) /\ \A i \in 1..Len(a) : a[i] = b[i]

Accepted == argv \in {"default", "validate_only"}

\* every required heading occurs in the text
HasAllHeadings(s) ==
  \A k \in 1..Len(required_sections) : Contains(s, required_sections[k])

\* the required headings that do not occur in the text, in the order checked
AbsentHeadings(s) == SelectSeq(required_sections, LAMBDA h : ~Contains(s, h))

\* the text has a line that is exactly h
HeadingLine(s, h) ==
  \E i \in 1..Len(s) :
    /\ MatchAt(s, h, i)
    /\ i = 1 \/ s[i - 1] = NL
    /\ i + Len(h) > Len(s) \/ s[i + Len(h)] = NL

\* every required heading is a line of the text
HasAllHeadingLines(s) ==
  \A k \in 1..Len(required_sections) : HeadingLine(s, required_sections[k])

\* the seven checks of a result, by name
SevenChecks(r) ==
  /\ r.has_overview /\ r.has_authentication /\ r.has_endpoints
  /\ r.has_examples /\ r.has_error_codes
  /\ r.has_http_examples /\ r.has_json_examples

NoCheck(r) ==
  /\ ~r.has_overview /\ ~r.has_authentication /\ ~r.has_endpoints
  /\ ~r.has_examples /\ ~r.has_error_codes
  /\ ~r.has_http_examples /\ ~r.has_json_examples

SectionFlags(r) ==
  <<r.has_overview, r.has_authentication, r.has_endpoints, r.has_examples,
    r.has_error_codes>>

\* the process has ended
Ended == pc \in {"exited", "crashed"}

\* the files at the three paths of the command line, now and before the run
TemplateFile == fs.files[paths.template]

OutputFile == fs.files[paths.output]

ReportFile == fs.files[paths.report]

TemplateFile0 == fs0.files[paths.template]

OutputFile0 == fs0.files[paths.output]

ReportFile0 == fs0.files[paths.report]

\* the three paths name three files
DistinctPaths ==
  /\ paths.template # paths.output
  /\ paths.template # paths.report
  /\ paths.output # paths.report

\* the text of the member "key": value of a JSON object
Member(key, value) == JsonString(key) \o <<":", " ">> \o value

\* a run that is not over can take its next step
Progress == ~Ended => ENABLED Next

\* the conditions under which a run is to exit 0
RunSucceeded ==
  /\ argv # "validate_only" =>
       steps.loaded /\ pre.known /\ pre.valid /\ steps.gen_ok
  /\ Called("validate_generated_docs")
  /\ validation_results.validation_passed
  /\ Called("generate_validation_report")
  /\ steps.report_ok

\* C1: every run of main ends with exit code 0 or 1 and no uncaught exception,
\* and with 0 exactly when (in the default mode) the template was loaded,
\* passed the pre-validation and was generated, the post-validation passed and
\* the report was written.  Stated for the runs whose command line parse_args
\* accepts; --help (exit 0) and a rejected command line (exit 2) end the run
\* inside parse_args.
C1_EveryRunExitsZeroOrOne ==
  (Ended /\ Accepted) =>
    /\ pc # "crashed"
    /\ exit_code \in {0, 1}
    /\ exit_code = 0 <=> RunSucceeded

\* C2: in the default mode, when the template file does not exist the run ends
\* with exit code 1 right after load_template, and the output file and the
\* report file are the same in every state of the run as when it started.
C2_MissingTemplate ==
  (argv = "default" /\ ~TemplateFile0.exists) =>
    /\ OutputFile = OutputFile0 /\ ReportFile = ReportFile0
    /\ fs = fs0
    /\ writes = {}
    /\ pc \in {"start", "load", "exited"}
    /\ pc = "exited" => exit_code = 1 /\ calls = <<"load_template">>
    /\ Progress

C2_Witness ==
  /\ argv = "default" /\ ~TemplateFile0.exists /\ pc = "exited"
  /\ OutputFile0.exists /\ ReportFile0.exists

\* C3: validate_template_content answers valid exactly when all five required
\* headings occur in the text, valid exactly when it names no missing section,
\* and the sections it names are the required headings that do not occur in
\* the text, in the order of required_sections.
C3_ValidatorNamesMissing ==
  pre.known =>
    /\ pre.valid <=> HasAllHeadings(template_content)
    /\ pre.valid <=> (pre.missing = <<>>)
    /\ pre.missing = AbsentHeadings(template_content)

C3_Witness ==
  /\ pre.known /\ ~pre.valid
  /\ pre.missing = <<AuthenticationHeading, ErrorCodesHeading>>

\* C4: a required section counts as present only when the text has
\* the line "## <Section>" exactly: a section without such a line is named
\* missing by validate_template_content, and its has_<section> flag is false
\* in the result of validate_generated_docs.
C4_ExactHeadingLineOnly ==
  /\ pre.known =>
       \A k \in 1..Len(required_sections) :
         ~HeadingLine(template_content, required_sections[k]) =>
           \E i \in 1..Len(pre.missing) : pre.missing[i] = required_sections[k]
  /\ (pc = "lib_done" /\ steps.gen_ok) =>
       \A k \in 1..Len(required_sections) :
         ~HeadingLine(OutputFile.content, required_sections[k]) =>
           ~SectionFlags(validation_results)[k]

\* C5: the warning-level features of a template (http block, json blocks, code
\* blocks, table) do not change the outcome.  A template with all five heading
\* lines and all of these features passes, so every default run without I/O
\* failure on a template with all five heading lines ends with
\* validation_passed and exit code 0, whichever of these features it has.
C5_WarningsAreAdvisory ==
  (/\ pc = "exited" /\ argv = "default" /\ console = "unicode"
   /\ steps.loaded /\ steps.gen_ok /\ steps.report_ok
   /\ HasAllHeadingLines(template_content)) =>
    validation_results.validation_passed /\ exit_code = 0

\* C6: after generate_api_docs has written the document of a template, with
\* any metadata or none, validate_generated_docs sets has_<section> for every
\* required heading that occurs in the template.
C6_RoundTrip ==
  (pc = "lib_done" /\ steps.gen_ok) =>
    \A k \in 1..Len(required_sections) :
      Contains(template_content, required_sections[k]) =>
        SectionFlags(validation_results)[k]

C6_Witness ==
  /\ pc = "lib_done" /\ steps.gen_ok /\ Truthy(metadata)
  /\ OutputFile.content # template_content
  /\ HasAllHeadings(template_content)
  /\ SevenChecks(validation_results)

\* the last character of the first line that begins with "# "
TitleLineEnd(s) ==
  LET starts == {i \in 1..(Len(s) - 1) :
                   /\ i = 1 \/ s[i - 1] = NL
                   /\ s[i] = "#" /\ s[i + 1] = " "}
      first == CHOOSE i \in starts : \A j \in starts : i <= j
      ends == {e \in first..Len(s) : e = Len(s) \/ s[e + 1] = NL}
  IN  CHOOSE e \in ends : \A j \in ends : e <= j

InsertAfterTitleLine(s, block) ==
  SubSeq(s, 1, TitleLineEnd(s)) \o block \o SubSeq(s, TitleLineEnd(s) + 1, Len(s))

\* C7: when metadata is supplied (a dict with entries), the document written
\* is the template with one metadata block (Generated comment, then Version
\* comment, the version defaulting to "1.0.0") right after its top-level title
\* line and nothing else changed, whatever the title line is and however
\* often the literal title occurs.
C7_OneBlockAfterTitleLine ==
  (Called("generate_api_docs") /\ steps.gen_ok /\ Truthy(metadata)) =>
    OutputFile.content =
      InsertAfterTitleLine(template_content, metadata_section(metadata, clock))

\* C8: in every result of validate_generated_docs, the one for an unreadable
\* output file included, validation_passed is true exactly when all seven
\* checks are; and in the report written from it, summary.passed is true
\* exactly when summary.passed_checks equals summary.total_checks, which is 7.
C8_PassedIffSevenChecks ==
  /\ Called("validate_generated_docs") =>
       (validation_results.validation_passed <=> SevenChecks(validation_results))
  /\ steps.report_ok =>
       LET report == ReportFile.content
       IN  /\ Contains(report, Member(KeyTotalChecks, Decimal(7)))
           /\ Contains(report, Member(KeyPassed, JsonTrue)) <=>
                Contains(report, Member(KeyPassedChecks, Decimal(7)))
           /\ Contains(report, Member(KeyValidationPassed, JsonTrue)) <=>
                Contains(report, Member(KeyPassed, JsonTrue))

C8_Witness ==
  /\ steps.report_ok /\ steps.gen_ok
  /\ validation_results.has_error_codes /\ validation_results.has_overview
  /\ validation_results.has_http_examples
  /\ ~validation_results.has_json_examples
  /\ Contains(ReportFile.content, Member(KeyPassed, JsonFalse))
  /\ Contains(ReportFile.content, Member(KeyPassedChecks, Decimal(6)))

FullOrder ==
  <<"load_template", "validate_template_content", "generate_api_docs",
    "validate_generated_docs", "generate_validation_report">>

\* C9: in the default mode a template that fails validate_template_content ends
\* the run with exit code 1 with only load_template and
\* validate_template_content invoked and the files as they were; the steps are
\* invoked in the order Load, Validate(pre), Generate, Validate(post), Report
\* (the last two alone under --validate-only), each only after the steps
\* before it went through, and the summary only after the report was written.
C9_FatalBeforeAnyWrite ==
  Accepted =>
    /\ (argv = "default" /\ pre.known /\ ~pre.valid) =>
         /\ pc = "exited" /\ exit_code = 1
         /\ calls = SubSeq(FullOrder, 1, 2)
         /\ fs = fs0 /\ writes = {}
    /\ IsPrefix(calls, IF argv = "default" THEN FullOrder
                       ELSE SubSeq(FullOrder, 4, 5))
    /\ Called("validate_template_content") => steps.loaded
    /\ Called("generate_api_docs") => pre.known /\ pre.valid
    /\ (argv = "default" /\ Called("validate_generated_docs")) => steps.gen_ok
    /\ pc = "summary" => Len(calls) = Len(FullOrder) \/ argv = "validate_only"
    /\ pc = "summary" => steps.report_ok
    /\ (Ended /\ exit_code = 0) => steps.report_ok

C9_Witness ==
  /\ argv = "default" /\ pre.known /\ ~pre.valid /\ pc = "exited"
  /\ OutputFile0.exists /\ ReportFile0.exists /\ DistinctPaths

\* C10: under --validate-only the run reads no file but the output file and
\* writes no file but the report, never reads the template, and leaves the
\* output file as it was, neither created nor modified; when the output file
\* does not exist all seven checks and validation_passed are false,
\* generate_validation_report is still invoked and writes the report wherever
\* the report file can be written, and the run ends with exit code 1.
C10_ValidateOnly ==
  argv = "validate_only" =>
    /\ reads \subseteq {paths.output} /\ writes \subseteq {paths.report}
    /\ OutputFile = OutputFile0
    /\ ~Called("load_template") /\ ~Called("generate_api_docs")
    /\ (~OutputFile0.exists /\ Called("validate_generated_docs")) =>
         NoCheck(validation_results) /\ ~validation_results.validation_passed
    /\ (~OutputFile0.exists /\ Ended) =>
         /\ exit_code = 1
         /\ Called("generate_validation_report")
         /\ (Dirname(paths.report) # <<>> /\
             fs0.dirs[Dirname(paths.report)] \in {"exists", "missing"}) =>
              /\ steps.report_ok /\ paths.report \in writes
              /\ ReportFile.exists
              /\ Contains(ReportFile.content, Member(KeyPassed, JsonFalse))
=============================================================================
